---- MODULE Spec2Model ----
(***************************************************************************)
(* Model of music_playlist_manager.py: the PlaylistManager record store    *)
(* (add_song, view_playlist, update_song, delete_song) and the part of the *)
(* GUI frame loop of main() that drives it.                                *)
(*                                                                         *)
(* A Python str is a sequence of one-character strings.  A Python value    *)
(* passed as an argument is a record [type, s]: type is the Python type    *)
(* name and s the characters of a str (<<>> for the other types).  The     *)
(* dict self.playlist is a sequence of [title, artist, genre] records in   *)
(* insertion order, one per key.                                           *)
(***************************************************************************)
EXTENDS Integers, Sequences, FiniteSets, TLC

VARIABLES
    playlist,       \* self.playlist, in dict iteration order
    call,           \* the last call a caller made on the manager: [op, title, artist, genre]
    result,         \* the string that call returned
    prev,           \* self.playlist as it was when that call started
    addOrder,       \* history: the titles present, ordered by their most recent successful add_song
    pc,             \* position of main()'s frame loop
    idx,            \* position of the for loop over playlist.items()
    input_buffers,  \* main(): title, artist, genre, new_artist, new_genre, message, selected_song
    popup,          \* title whose context menu is open (<<>> when none is)
    to_delete       \* main(): titles marked for deletion in this frame

vars == <<playlist, call, result, prev, addOrder, pc, idx, input_buffers, popup, to_delete>>

----------------------------------------------------------------------------
(* Bounds *)

\* add_song is not offered once the catalog holds MaxSongs records
MaxSongs == 2

----------------------------------------------------------------------------
(* Python values *)

Str(s) == [type |-> "str", s |-> s]
None == [type |-> "NoneType", s |-> <<>>]
IntVal == [type |-> "int", s |-> <<>>]

\* isinstance(x, str)
isinstance_str(x) == x.type = "str"

\* the characters str.strip() removes
Whitespace == {" ", "\t", "\n"}

RECURSIVE lstrip(_)
lstrip(s) ==
    IF s # <<>> /\ Head(s) \in Whitespace THEN lstrip(Tail(s)) ELSE s

RECURSIVE rstrip(_)
rstrip(s) ==
    IF s # <<>> /\ s[Len(s)] \in Whitespace
    THEN rstrip(SubSeq(s, 1, Len(s) - 1))
    ELSE s

\* strip() that only removes leading whitespace
StripLeadingOnly(s) == lstrip(s)

\* str.strip()
strip(s) == rstrip(lstrip(s))

----------------------------------------------------------------------------
(* dict operations on self.playlist *)

\* the keys, in iteration order
Keys(pl) == [i \in 1..Len(pl) |-> pl[i].title]

KeySet(pl) == {pl[i].title : i \in 1..Len(pl)}

\* title in self.playlist
Contains(pl, title) == title \in KeySet(pl)

IndexOf(pl, title) == CHOOSE i \in 1..Len(pl) : pl[i].title = title

\* self.playlist[title]
GetItem(pl, title) == pl[IndexOf(pl, title)]

\* self.playlist[title] = {"artist": artist, "genre": genre}
SetItem(pl, title, artist, genre) ==
    LET rec == [title |-> title, artist |-> artist, genre |-> genre]
    IN  IF Contains(pl, title)
        THEN [pl EXCEPT ![IndexOf(pl, title)] = rec]
        ELSE Append(pl, rec)

\* the artist stored by removing the record and inserting it again
SetArtistReinsert(pl, title, artist) ==
    LET i == IndexOf(pl, title)
    IN  SubSeq(pl, 1, i - 1) \o SubSeq(pl, i + 1, Len(pl))
        \o <<[pl[i] EXCEPT !.artist = artist]>>

\* self.playlist[title]["artist"] = artist
SetArtist(pl, title, artist) ==
    [pl EXCEPT ![IndexOf(pl, title)].artist = artist]

\* the genre written to the artist key
SetGenreWrongKey(pl, title, genre) ==
    [pl EXCEPT ![IndexOf(pl, title)].artist = genre]

\* self.playlist[title]["genre"] = genre
SetGenre(pl, title, genre) ==
    [pl EXCEPT ![IndexOf(pl, title)].genre = genre]

\* a delete that also drops the records after the deleted one
DelItemTruncate(pl, title) ==
    SubSeq(pl, 1, IndexOf(pl, title) - 1)

\* del self.playlist[title]
DelItem(pl, title) ==
    LET i == IndexOf(pl, title)
    IN  SubSeq(pl, 1, i - 1) \o SubSeq(pl, i + 1, Len(pl))

----------------------------------------------------------------------------
(* The messages the operations return, as character sequences with the     *)
(* fixed parts of each f-string kept as one element.                       *)

MsgTypeAdd == <<"Title, artist, and genre must be strings">>
MsgEmptyField == <<"Title, artist, and genre cannot be empty">>
MsgExists(title) == <<"Song '">> \o title \o <<"' already exists!">>
MsgAdded(title) == <<"Song '">> \o title \o <<"' added successfully!">>
MsgEmpty == <<"Playlist is empty">>
MsgTypeTitle == <<"Title must be a string">>
MsgTypeArtist == <<"Artist must be a string">>
MsgTypeGenre == <<"Genre must be a string">>
MsgNotFound(title) == <<"Song '">> \o title \o <<"' not found in playlist!">>
MsgUpdated(title) == <<"Song '">> \o title \o <<"' updated successfully!">>
MsgDeleted(title) == <<"Song '">> \o title \o <<"' deleted successfully!">>

Ret(pl, msg) == [playlist |-> pl, result |-> msg]

----------------------------------------------------------------------------
(* PlaylistManager *)

\* add_song without the duplicate check
AddSongNoDuplicateCheck(pl, title, artist, genre) ==
    IF ~(isinstance_str(title) /\ isinstance_str(artist) /\ isinstance_str(genre))
    THEN Ret(pl, MsgTypeAdd)
    ELSE LET t == strip(title.s)
             a == strip(artist.s)
             g == strip(genre.s)
         IN  IF t = <<>> \/ a = <<>> \/ g = <<>>
             THEN Ret(pl, MsgEmptyField)
             ELSE Ret(SetItem(pl, t, a, g), MsgAdded(t))

\* add_song storing the artist and genre as passed
AddSongUntrimmedFields(pl, title, artist, genre) ==
    IF ~(isinstance_str(title) /\ isinstance_str(artist) /\ isinstance_str(genre))
    THEN Ret(pl, MsgTypeAdd)
    ELSE LET t == strip(title.s)
             a == strip(artist.s)
             g == strip(genre.s)
         IN  IF t = <<>> \/ a = <<>> \/ g = <<>>
             THEN Ret(pl, MsgEmptyField)
             ELSE IF Contains(pl, t)
                  THEN Ret(pl, MsgExists(t))
                  ELSE Ret(SetItem(pl, t, artist.s, genre.s), MsgAdded(t))

\* add_song checking only the title for emptiness
AddSongTitleCheckOnly(pl, title, artist, genre) ==
    IF ~(isinstance_str(title) /\ isinstance_str(artist) /\ isinstance_str(genre))
    THEN Ret(pl, MsgTypeAdd)
    ELSE LET t == strip(title.s)
             a == strip(artist.s)
             g == strip(genre.s)
         IN  IF t = <<>>
             THEN Ret(pl, MsgEmptyField)
             ELSE IF Contains(pl, t)
                  THEN Ret(pl, MsgExists(t))
                  ELSE Ret(SetItem(pl, t, a, g), MsgAdded(t))

\* add_song(title, artist, genre) on the dict pl: the dict and the string returned
AddSong(pl, title, artist, genre) ==
    IF ~(isinstance_str(title) /\ isinstance_str(artist) /\ isinstance_str(genre))
    THEN Ret(pl, MsgTypeAdd)
    ELSE LET t == strip(title.s)
             a == strip(artist.s)
             g == strip(genre.s)
         IN  IF t = <<>> \/ a = <<>> \/ g = <<>>
             THEN Ret(pl, MsgEmptyField)
             ELSE IF Contains(pl, t)
                  THEN Ret(pl, MsgExists(t))
                  ELSE Ret(SetItem(pl, t, a, g), MsgAdded(t))

\* one block of view_playlist's listing
ViewBlock(rec) ==
    <<"Title: ">> \o rec.title \o <<"\n">>
    \o <<"Artist: ">> \o rec.artist \o <<"\n">>
    \o <<"Genre: ">> \o rec.genre \o <<"\n", "\n">>

RECURSIVE ViewBlocks(_)
ViewBlocks(pl) ==
    IF pl = <<>> THEN <<>> ELSE ViewBlock(Head(pl)) \o ViewBlocks(Tail(pl))

\* view_playlist()
ViewPlaylist(pl) ==
    IF pl = <<>> THEN Ret(pl, MsgEmpty) ELSE Ret(pl, ViewBlocks(pl))

\* update_song type-checking the artist before looking the title up
UpdateSongTypesFirst(pl, title, artist, genre) ==
    IF ~isinstance_str(title)
    THEN Ret(pl, MsgTypeTitle)
    ELSE IF artist # None /\ ~isinstance_str(artist)
    THEN Ret(pl, MsgTypeArtist)
    ELSE LET t == strip(title.s)
         IN  IF ~Contains(pl, t)
             THEN Ret(pl, MsgNotFound(t))
             ELSE LET pl1 == IF artist # None /\ strip(artist.s) # <<>>
                             THEN SetArtist(pl, t, strip(artist.s))
                             ELSE pl
                  IN  IF genre # None /\ ~isinstance_str(genre)
                      THEN Ret(pl1, MsgTypeGenre)
                      ELSE LET pl2 == IF genre # None /\ strip(genre.s) # <<>>
                                      THEN SetGenre(pl1, t, strip(genre.s))
                                      ELSE pl1
                           IN  Ret(pl2, MsgUpdated(t))

\* update_song(title, artist, genre): the artist is stored before the genre
\* is type-checked
UpdateSong(pl, title, artist, genre) ==
    IF ~isinstance_str(title)
    THEN Ret(pl, MsgTypeTitle)
    ELSE LET t == strip(title.s)
         IN  IF ~Contains(pl, t)
             THEN Ret(pl, MsgNotFound(t))
             ELSE IF artist # None /\ ~isinstance_str(artist)
                  THEN Ret(pl, MsgTypeArtist)
                  ELSE LET pl1 == IF artist # None /\ strip(artist.s) # <<>>
                                  THEN SetArtist(pl, t, strip(artist.s))
                                  ELSE pl
                       IN  IF genre # None /\ ~isinstance_str(genre)
                           THEN Ret(pl1, MsgTypeGenre)
                           ELSE LET pl2 == IF genre # None /\ strip(genre.s) # <<>>
                                           THEN SetGenre(pl1, t, strip(genre.s))
                                           ELSE pl1
                                IN  Ret(pl2, MsgUpdated(t))

\* delete_song(title)
DeleteSong(pl, title) ==
    IF ~isinstance_str(title)
    THEN Ret(pl, MsgTypeTitle)
    ELSE LET t == strip(title.s)
         IN  IF ~Contains(pl, t)
             THEN Ret(pl, MsgNotFound(t))
             ELSE Ret(DelItem(pl, t), MsgDeleted(t))

---------------------------------------------------------------------------------------------------------------------------------------------------
(* Inputs *)

\* titles passed by a caller: empty, whitespace only, three keys (one with
\* inner whitespace), one of them also padded, and a non-string
TitleInputs ==
    { Str(<<>>), Str(<<" ", "\t">>),
      Str(<<"a">>), Str(<<" ", "a", "\n">>),
      Str(<<"b">>), Str(<<"a", " ", "b">>),
      IntVal }

\* (artist, genre) pairs passed by a caller
FieldInputs ==
    { <<Str(<<"x">>), Str(<<"r">>)>>,
      <<Str(<<"\t", "y", " ">>), Str(<<" ", "s", "\n">>)>>,
      <<Str(<<>>), Str(<<"r">>)>>,
      <<Str(<<"x">>), Str(<<" ">>)>>,
      <<Str(<<>>), Str(<<>>)>>,
      <<None, None>>,
      <<None, Str(<<"s">>)>>,
      <<Str(<<"y">>), None>>,
      <<IntVal, Str(<<"r">>)>>,
      <<Str(<<"y">>), IntVal>> }

----------------------------------------------------------------------------
(* History *)

RECURSIVE Without(_, _)
Without(seq, x) ==
    IF seq = <<>> THEN <<>>
    ELSE IF Head(seq) = x THEN Without(Tail(seq), x)
         ELSE <<Head(seq)>> \o Without(Tail(seq), x)

\* addOrder after add_song(title, ...) returned msg
Added(order, title, msg) ==
    IF isinstance_str(title) /\ msg = MsgAdded(strip(title.s))
    THEN Append(Without(order, strip(title.s)), strip(title.s))
    ELSE order

\* addOrder after delete_song(title) returned msg
Deleted(order, title, msg) ==
    IF isinstance_str(title) /\ msg = MsgDeleted(strip(title.s))
    THEN Without(order, strip(title.s))
    ELSE order

NoCall == [op |-> "none", title |-> None, artist |-> None, genre |-> None]

GuiUnchanged == UNCHANGED <<pc, idx, input_buffers, popup, to_delete>>

----------------------------------------------------------------------------
(* The manager called directly *)

Init ==
    /\ playlist = <<>>
    /\ call = NoCall
    /\ result = <<>>
    /\ prev = <<>>
    /\ addOrder = <<>>
    /\ pc = "frame"
    /\ idx = 0
    /\ input_buffers = [title |-> <<>>, artist |-> <<>>, genre |-> <<>>,
                        message |-> <<>>, new_artist |-> <<>>, new_genre |-> <<>>,
                        selected_song |-> <<>>]
    /\ popup = <<>>
    /\ to_delete = <<>>

add_song ==
    /\ Len(playlist) < MaxSongs
    /\ \E title \in TitleInputs, f \in FieldInputs :
        LET r == AddSong(playlist, title, f[1], f[2])
        IN  /\ playlist' = r.playlist
            /\ result' = r.result
            /\ call' = [op |-> "add_song", title |-> title, artist |-> f[1], genre |-> f[2]]
            /\ prev' = playlist
            /\ addOrder' = Added(addOrder, title, r.result)
    /\ GuiUnchanged

view_playlist ==
    /\ LET r == ViewPlaylist(playlist)
       IN  /\ playlist' = r.playlist
           /\ result' = r.result
    /\ call' = [NoCall EXCEPT !.op = "view_playlist"]
    /\ prev' = playlist
    /\ UNCHANGED addOrder
    /\ GuiUnchanged

update_song ==
    /\ \E title \in TitleInputs, f \in FieldInputs :
        LET r == UpdateSong(playlist, title, f[1], f[2])
        IN  /\ playlist' = r.playlist
            /\ result' = r.result
            /\ call' = [op |-> "update_song", title |-> title, artist |-> f[1], genre |-> f[2]]
            /\ prev' = playlist
    /\ UNCHANGED addOrder
    /\ GuiUnchanged

delete_song ==
    /\ \E title \in TitleInputs :
        LET r == DeleteSong(playlist, title)
        IN  /\ playlist' = r.playlist
            /\ result' = r.result
            /\ call' = [NoCall EXCEPT !.op = "delete_song", !.title = title]
            /\ prev' = playlist
            /\ addOrder' = Deleted(addOrder, title, r.result)
    /\ GuiUnchanged

Next == add_song \/ view_playlist \/ update_song \/ delete_song

Spec == Init /\ [][Next]_vars

----------------------------------------------------------------------------
(* main(): one pass of the frame loop, from the "Add New Song" form to the  *)
(* deletions that follow the list of songs.  pc is the part of the frame    *)
(* that runs next; the events of a part (text typed, buttons and items      *)
(* clicked) are chosen by the step that runs it.                            *)

\* text typed into the form and into the context menu
TypedTitles == { <<>>, <<"a">>, <<" ", "b">> }
TypedArtists == { <<>>, <<"x">> }
TypedGenres == { <<"r">> }
TypedNewArtists == { <<>>, <<"y">> }
TypedNewGenres == { <<>>, <<" ">> }

MsgNothingFilled == <<"Error: At least one field must be filled">>

ApiUnchanged == UNCHANGED <<call, result, prev, addOrder>>

\* lines 257-273: the three input fields and the "Add Song" button; a context
\* menu left open may have been closed by a click outside it
AddSection ==
    /\ pc = "frame"
    /\ \E title \in TypedTitles, artist \in TypedArtists, genre \in TypedGenres,
          clicked \in BOOLEAN :
        IF clicked
        THEN LET r == AddSong(playlist, Str(title), Str(artist), Str(genre))
             IN  /\ playlist' = r.playlist
                 /\ input_buffers' = [input_buffers EXCEPT
                        !.message = r.result,
                        !.title = <<>>, !.artist = <<>>, !.genre = <<>>]
        ELSE /\ playlist' = playlist
             /\ input_buffers' = [input_buffers EXCEPT
                    !.title = title, !.artist = artist, !.genre = genre]
    /\ popup' \in {popup, <<>>}
    /\ pc' = "playlist"
    /\ UNCHANGED <<idx, to_delete>>
    /\ ApiUnchanged

\* lines 277-289 and 350-352: the list is entered when the catalog is not
\* empty, with nothing marked and the selection dropped by a click on empty
\* space
BeginPlaylist ==
    /\ pc = "playlist"
    /\ IF playlist # <<>>
       THEN /\ to_delete' = <<>>
            /\ \E clicked_empty \in BOOLEAN :
                 input_buffers' = [input_buffers EXCEPT
                    !.selected_song = IF clicked_empty THEN <<>> ELSE @]
            /\ idx' = 1
            /\ pc' = "items"
       ELSE /\ pc' = "frame"
            /\ UNCHANGED <<to_delete, input_buffers, idx>>
    /\ UNCHANGED <<playlist, popup>>
    /\ ApiUnchanged

\* lines 316-328: the "Update" button of the context menu of title
UpdateButton(pl, buf, title) ==
    IF strip(buf.new_artist) # <<>> \/ strip(buf.new_genre) # <<>>
    THEN LET r == UpdateSong(pl, Str(title),
                     IF strip(buf.new_artist) # <<>> THEN Str(buf.new_artist) ELSE None,
                     IF strip(buf.new_genre) # <<>> THEN Str(buf.new_genre) ELSE None)
         IN  [playlist |-> r.playlist,
              buf |-> [buf EXCEPT !.message = r.result,
                                  !.new_artist = <<>>, !.new_genre = <<>>],
              close |-> TRUE]
    ELSE [playlist |-> pl,
          buf |-> [buf EXCEPT !.message = MsgNothingFilled],
          close |-> FALSE]

\* lines 290-343: one iteration of the loop over playlist.items()
Item ==
    /\ pc = "items"
    /\ idx <= Len(playlist)
    /\ LET title == playlist[idx].title
       IN  \E is_clicked \in BOOLEAN, right_clicked \in BOOLEAN :
             LET buf1 == IF is_clicked
                         THEN [input_buffers EXCEPT !.selected_song = title]
                         ELSE input_buffers
                 open == IF right_clicked THEN title ELSE popup
             IN  IF open # title
                 THEN /\ input_buffers' = buf1
                      /\ popup' = open
                      /\ UNCHANGED <<playlist, to_delete>>
                 ELSE \E new_artist \in TypedNewArtists, new_genre \in TypedNewGenres,
                         button \in {"none", "Update", "Delete", "Cancel"} :
                        LET buf2 == [buf1 EXCEPT !.selected_song = title,
                                                 !.new_artist = new_artist,
                                                 !.new_genre = new_genre]
                            cleared == [buf2 EXCEPT !.new_artist = <<>>,
                                                    !.new_genre = <<>>]
                            u == UpdateButton(playlist, buf2, title)
                        IN  CASE button = "Update" ->
                                   /\ playlist' = u.playlist
                                   /\ input_buffers' = u.buf
                                   /\ popup' = IF u.close THEN <<>> ELSE open
                                   /\ UNCHANGED to_delete
                              [] button = "Delete" ->
                                   /\ to_delete' = Append(to_delete, title)
                                   /\ input_buffers' = cleared
                                   /\ popup' = <<>>
                                   /\ UNCHANGED playlist
                              [] button = "Cancel" ->
                                   /\ input_buffers' = cleared
                                   /\ popup' = <<>>
                                   /\ UNCHANGED <<playlist, to_delete>>
                              [] OTHER ->
                                   /\ input_buffers' = buf2
                                   /\ popup' = open
                                   /\ UNCHANGED <<playlist, to_delete>>
    /\ idx' = idx + 1
    /\ UNCHANGED pc
    /\ ApiUnchanged

\* line 290: the loop over playlist.items() is exhausted
EndItems ==
    /\ pc = "items"
    /\ idx > Len(playlist)
    /\ pc' = "deletions"
    /\ UNCHANGED <<playlist, idx, input_buffers, popup, to_delete>>
    /\ ApiUnchanged

\* a deletion that leaves the selection on the deleted title
DeleteMarkedKeepSelection(st, title) ==
    LET r == DeleteSong(st.playlist, Str(title))
    IN  [playlist |-> r.playlist,
         buf |-> [st.buf EXCEPT !.message = r.result]]

\* lines 347-349: the body of the loop over to_delete
DeleteMarked(st, title) ==
    LET r == DeleteSong(st.playlist, Str(title))
    IN  [playlist |-> r.playlist,
         buf |-> [st.buf EXCEPT
                    !.message = r.result,
                    !.selected_song = IF @ = title THEN <<>> ELSE @]]

\* lines 346-349: the loop over to_delete
RECURSIVE DeleteAll(_, _)
DeleteAll(st, titles) ==
    IF titles = <<>> THEN st
    ELSE DeleteAll(DeleteMarked(st, Head(titles)), Tail(titles))

\* lines 345-349: the deletions marked during the loop, made after it
HandleDeletions ==
    /\ pc = "deletions"
    /\ LET st == DeleteAll([playlist |-> playlist, buf |-> input_buffers], to_delete)
       IN  /\ playlist' = st.playlist
           /\ input_buffers' = st.buf
    /\ pc' = "frame"
    /\ UNCHANGED <<idx, popup, to_delete>>
    /\ ApiUnchanged

NextGui == AddSection \/ BeginPlaylist \/ Item \/ EndItems \/ HandleDeletions

SpecGui == Init /\ [][NextGui]_vars

----------------------------------------------------------------------------
(* Vocabulary of the properties *)

\* the key a call names: its title argument, trimmed
CallKey == strip(call.title.s)

StringArgs == isinstance_str(call.title) /\ isinstance_str(call.artist) /\ isinstance_str(call.genre)

\* v is a string that is empty after trimming
Blank(v) == isinstance_str(v) /\ strip(v.s) = <<>>

\* v is a string that is non-empty after trimming
Filled(v) == isinstance_str(v) /\ strip(v.s) # <<>>

\* v is what update_song's signature admits: absent or a string
Optional(v) == v = None \/ isinstance_str(v)

\* the last call returned its success message (a listing, for view_playlist)
Succeeded ==
    \/ call.op = "add_song" /\ isinstance_str(call.title) /\ result = MsgAdded(CallKey)
    \/ call.op = "update_song" /\ isinstance_str(call.title) /\ result = MsgUpdated(CallKey)
    \/ call.op = "delete_song" /\ isinstance_str(call.title) /\ result = MsgDeleted(CallKey)
    \/ call.op = "view_playlist" /\ result # MsgEmpty

\* the last call returned an error message
Failed == call.op # "none" /\ ~Succeeded

\* block occurs in listing
Lists(listing, block) ==
    \E i \in 1..Len(listing) : SubSeq(listing, i, i + Len(block) - 1) = block

\* the records of pl other than the one under title, in order
Others(pl, title) == SelectSeq(pl, LAMBDA rec : rec.title # title)

\* the listing of the records of pl taken in the order of the titles in order
RECURSIVE ListingBy(_, _)
ListingBy(order, pl) ==
    IF order = <<>> THEN <<>>
    ELSE ViewBlock(GetItem(pl, Head(order))) \o ListingBy(Tail(order), pl)

----------------------------------------------------------------------------
(* Properties *)

\* s has no leading and no trailing whitespace character
Trimmed(s) == s = <<>> \/ (s[1] \notin Whitespace /\ s[Len(s)] \notin Whitespace)

\* s has a character that is not whitespace, so it is non-empty after trimming
NonBlank(s) == \E i \in 1..Len(s) : s[i] \notin Whitespace

\* C1: in every reachable state every key is a non-empty string equal to its
\* own trimmed form (no leading or trailing whitespace), and the artist and
\* genre of every record are non-empty after trimming.
C1_KeysTrimmedFieldsFilled ==
    \A i \in 1..Len(playlist) :
        /\ playlist[i].title # <<>>
        /\ Trimmed(playlist[i].title)
        /\ NonBlank(playlist[i].artist)
        /\ NonBlank(playlist[i].genre)

\* a record was stored by an add_song whose title and artist came padded
C1_Witness ==
    /\ call.op = "add_song" /\ Succeeded
    /\ call.title.s # CallKey
    /\ call.artist.s # strip(call.artist.s)
    /\ Len(playlist) = 2

\* C2 as stated: add_song of a title that exists after trimming returns the
\* "already exists" message whatever artist and genre strings are passed, and
\* leaves the catalog unchanged.
C2_DuplicateWhateverFields ==
    (call.op = "add_song" /\ StringArgs /\ Contains(prev, CallKey))
        => (result = MsgExists(CallKey) /\ playlist = prev)

\* C2 amended: add_song of a title that exists after trimming leaves the
\* catalog unchanged and never succeeds; it returns the "already exists"
\* message when artist and genre are strings that are non-empty after
\* trimming, the "cannot be empty" message when the three are strings and
\* artist or genre is empty after trimming, and the "must be strings" message
\* when artist or genre is not a string.
C2_DuplicateAfterValidation ==
    (call.op = "add_song" /\ isinstance_str(call.title) /\ Contains(prev, CallKey))
        => /\ playlist = prev
           /\ (Filled(call.artist) /\ Filled(call.genre)) => result = MsgExists(CallKey)
           /\ (StringArgs /\ (Blank(call.artist) \/ Blank(call.genre)))
                 => result = MsgEmptyField
           /\ ~StringArgs => result = MsgTypeAdd

\* a padded title that exists was added again with an artist and genre that
\* differ from the stored ones
C2_Witness ==
    /\ call.op = "add_song" /\ isinstance_str(call.title)
    /\ call.title.s # CallKey
    /\ Contains(prev, CallKey)
    /\ Filled(call.artist) /\ Filled(call.genre)
    /\ strip(call.artist.s) # GetItem(prev, CallKey).artist
    /\ result = MsgExists(CallKey)

\* C3: add_song of strings that are all non-empty after trimming, with a
\* trimmed title that is not a key, returns the success message, appends
\* exactly the record (trimmed title, trimmed artist, trimmed genre) and
\* leaves every other record as it was, and a view_playlist of the resulting
\* catalog lists that record.
C3_AddStoresTrimmedRecord ==
    (/\ call.op = "add_song"
     /\ Filled(call.title) /\ Filled(call.artist) /\ Filled(call.genre)
     /\ ~Contains(prev, CallKey))
        => LET rec == [title |-> CallKey,
                       artist |-> strip(call.artist.s),
                       genre |-> strip(call.genre.s)]
           IN  /\ result = MsgAdded(CallKey)
               /\ Len(playlist) = Len(prev) + 1
               /\ playlist = prev \o <<rec>>
               /\ Lists(ViewPlaylist(playlist).result, ViewBlock(rec))

\* a padded record was added to a catalog that already held another one
C3_Witness ==
    /\ call.op = "add_song" /\ Succeeded
    /\ call.title.s # CallKey
    /\ call.genre.s # strip(call.genre.s)
    /\ Len(prev) = 1 /\ Len(playlist) = 2

\* C4: add_song of three strings of which any is empty after trimming
\* returns the "cannot be empty" message and leaves the catalog unchanged,
\* whatever the catalog holds.
C4_EmptyFieldRejected ==
    (/\ call.op = "add_song" /\ StringArgs
     /\ (Blank(call.title) \/ Blank(call.artist) \/ Blank(call.genre)))
        => (result = MsgEmptyField /\ playlist = prev)

\* a new title was added with a whitespace-only genre to a non-empty catalog
C4_Witness ==
    /\ call.op = "add_song" /\ StringArgs
    /\ Filled(call.title) /\ Filled(call.artist) /\ Blank(call.genre)
    /\ call.genre.s # <<>>
    /\ prev # <<>> /\ ~Contains(prev, CallKey)
    /\ result = MsgEmptyField

\* C5: update_song of a title that is not a key after trimming returns the
\* "not found" message and leaves the catalog unchanged, whatever artist and
\* genre are passed.
C5_UpdateUnknownTitle ==
    (call.op = "update_song" /\ isinstance_str(call.title) /\ ~Contains(prev, CallKey))
        => (result = MsgNotFound(CallKey) /\ playlist = prev)

\* an unknown title was updated with a non-string artist on a non-empty catalog
C5_Witness ==
    /\ call.op = "update_song" /\ isinstance_str(call.title)
    /\ CallKey # <<>> /\ ~Contains(prev, CallKey)
    /\ prev # <<>>
    /\ call.artist = IntVal
    /\ result = MsgNotFound(CallKey)

\* C6: update_song of a title that is a key after trimming, with artist and
\* genre each absent or a string, returns the success message and replaces,
\* in that record only, the artist by the trimmed new artist exactly when
\* the artist is a string non-empty after trimming, and the genre likewise;
\* no update_song call, whatever its arguments and outcome, changes the
\* sequence of keys or any other record.
C6_UpdateInPlace ==
    /\ (/\ call.op = "update_song" /\ isinstance_str(call.title)
        /\ Contains(prev, CallKey)
        /\ Optional(call.artist) /\ Optional(call.genre))
          => /\ result = MsgUpdated(CallKey)
             /\ playlist =
                  [i \in 1..Len(prev) |->
                     IF prev[i].title # CallKey THEN prev[i]
                     ELSE [title |-> prev[i].title,
                           artist |-> IF Filled(call.artist)
                                      THEN strip(call.artist.s) ELSE prev[i].artist,
                           genre |-> IF Filled(call.genre)
                                     THEN strip(call.genre.s) ELSE prev[i].genre]]
    /\ call.op = "update_song"
          => /\ Keys(playlist) = Keys(prev)
             /\ isinstance_str(call.title)
                   => Others(playlist, CallKey) = Others(prev, CallKey)
             /\ ~isinstance_str(call.title) => playlist = prev

\* the first of two records had its genre replaced and its artist kept
C6_Witness ==
    /\ call.op = "update_song" /\ Succeeded
    /\ Len(prev) = 2 /\ prev[1].title = CallKey
    /\ call.artist = None /\ Filled(call.genre)
    /\ playlist[1].genre # prev[1].genre
    /\ playlist[1].artist = prev[1].artist

\* both fields absent or empty: success reported, nothing changed
C6_WitnessNoChange ==
    /\ call.op = "update_song" /\ Succeeded
    /\ call.artist = None /\ call.genre = None
    /\ prev # <<>> /\ playlist = prev

\* C7, what one delete_song does: on a title that is a key after trimming it
\* returns the success message and removes exactly that record, the others
\* keeping their values and order.
C7_DeleteRemovesOne ==
    (call.op = "delete_song" /\ isinstance_str(call.title) /\ Contains(prev, CallKey))
        => /\ result = MsgDeleted(CallKey)
           /\ Len(playlist) = Len(prev) - 1
           /\ ~Contains(playlist, CallKey)
           /\ playlist = Others(prev, CallKey)

\* C7, over time: a title that is not a key becomes one only by a successful
\* add_song of it, and a delete_song of the title just deleted returns the
\* "not found" message and changes nothing.
C7_StaysDeleted ==
    /\ \A t \in KeySet(playlist') \ KeySet(playlist) :
          /\ call'.op = "add_song"
          /\ isinstance_str(call'.title) /\ strip(call'.title.s) = t
          /\ result' = MsgAdded(t)
    /\ (/\ call.op = "delete_song" /\ Succeeded
        /\ call'.op = "delete_song" /\ isinstance_str(call'.title)
        /\ strip(call'.title.s) = CallKey)
          => (result' = MsgNotFound(CallKey) /\ playlist' = playlist)

\* C7: delete_song on a title present after trimming removes exactly that
\* record and leaves every other record unchanged; the title stays absent
\* until a later successful add_song of it, so a second delete_song of it
\* directly after the first fails with "not found" and changes nothing.
C7_DeleteIrreversible == [](C7_DeleteRemovesOne) /\ [][C7_StaysDeleted]_vars

\* the first of two records was deleted through a padded title
C7_Witness ==
    /\ call.op = "delete_song" /\ Succeeded
    /\ call.title.s # CallKey
    /\ Len(prev) = 2 /\ prev[1].title = CallKey
    /\ playlist = <<prev[2]>>

\* C8: view_playlist never changes the catalog; on an empty catalog it
\* returns "Playlist is empty", and otherwise the blocks of the current
\* records, one per record, ordered by each title's most recent successful
\* add_song.
C8_ViewInAddOrder ==
    /\ call.op = "view_playlist"
          => /\ playlist = prev
             /\ prev = <<>> => result = MsgEmpty
             /\ prev # <<>> => result = ListingBy(addOrder, playlist)
    /\ Len(addOrder) = Len(playlist)
    /\ {addOrder[i] : i \in 1..Len(addOrder)} = KeySet(playlist)

\* two records were listed, in the order in which they were added
C8_Witness ==
    /\ call.op = "view_playlist"
    /\ Len(playlist) = 2
    /\ Lists(result, ViewBlock(playlist[1]) \o ViewBlock(playlist[2]))
    /\ result # MsgEmpty

\* view_playlist on the empty catalog
C8_WitnessEmpty ==
    call.op = "view_playlist" /\ playlist = <<>> /\ result = MsgEmpty

\* C9 as stated: a call that returns an error message leaves the catalog
\* exactly as it was before the call.
C9_FailureChangesNothing == Failed => playlist = prev

\* C10: a Delete chosen from a context menu is not applied while the frame
\* iterates over the catalog (a title marked in to_delete is still a key
\* until the loop has ended) and is applied after it (at the end of the frame
\* no marked title is a key); at the end of every frame the selected song is
\* the empty string or the title of a record of the catalog.
C10_DeferredDeleteValidSelection ==
    /\ pc = "items"
          => /\ idx <= Len(playlist) + 1
             /\ \A i \in 1..Len(to_delete) : Contains(playlist, to_delete[i])
    /\ pc = "frame"
          => /\ \A i \in 1..Len(to_delete) : ~Contains(playlist, to_delete[i])
             /\ \/ input_buffers.selected_song = <<>>
                \/ Contains(playlist, input_buffers.selected_song)

\* a frame ended in which a song was deleted through its context menu while
\* another record stayed, and the selection was dropped with it
C10_Witness ==
    /\ pc = "frame"
    /\ to_delete # <<>>
    /\ playlist # <<>>
    /\ input_buffers.message = MsgDeleted(to_delete[1])
    /\ input_buffers.selected_song = <<>>

\* in the middle of the loop a song is marked for deletion, selected and
\* still in the catalog
C10_WitnessMarked ==
    /\ pc = "items"
    /\ idx <= Len(playlist)
    /\ to_delete # <<>>
    /\ input_buffers.selected_song = to_delete[1]
    /\ Contains(playlist, to_delete[1])

====
